---- MODULE Spec2Model ----
(***************************************************************************)
(* Model of verifyHash (viem, actions/public/verifyHash.ts): ERC-6492      *)
(* signature verification through a universal validator call, with a      *)
(* local ECDSA-recovery fallback in the catch block.                      *)
(*                                                                         *)
(* One behaviour of Spec is one invocation of verifyHash (LiveSpec adds    *)
(* fairness, ConcSpec a second invocation).  The initial state holds       *)
(* the caller's parameters and the client's chain; each action is one     *)
(* step of the function body.  The call executor (`call`) is the only     *)
(* suspension point: CallAction invokes it, CallReturns / CallThrows are  *)
(* its responses.                                                          *)
(*                                                                         *)
(* Hex strings are sequences of nibbles (0..15), byte arrays sequences of  *)
(* bytes (0..255).  Widths are scaled down: a 32-byte word is one byte, a  *)
(* 65-byte signature three bytes, the 32-byte ERC-6492 marker two bytes.   *)
(***************************************************************************)
EXTENDS Integers, Sequences, FiniteSets, TLC

\* Number of key-holding accounts (addresses 1..NumAccounts).
NumAccounts == 2
\* Number of distinct well-formed message hashes.
NumHashes == 2

None == <<>>
Some(x) == <<x>>
IsSome(o) == Len(o) = 1
Get(o) == o[1]

-----------------------------------------------------------------------------
(* Errors.  `origin` tells where the instance was created, so that two     *)
(* instances of one class (InvalidAddressError from the ABI encoder and    *)
(* from getAddress) stay distinguishable.                                  *)

Err(name, origin) == [name |-> name, origin |-> origin]
NoError == Err("none", "none")

Ok(v) == [ok |-> TRUE, value |-> v, error |-> NoError]
Throw(e) == [ok |-> FALSE, value |-> <<>>, error |-> e]

-----------------------------------------------------------------------------
(* Values of the parameters.                                               *)

\* An address string: a valid one is either checksummed or lower-case.
Addr(id, checksummed) == [valid |-> TRUE, id |-> id, checksummed |-> checksummed]
InvalidAddress == [valid |-> FALSE, id |-> 0, checksummed |-> FALSE]
Addresses ==
    {Addr(id, c) : id \in 1..NumAccounts, c \in BOOLEAN} \cup {InvalidAddress}

\* A hash: bytes32 when size = 32; any other size is not a bytes32.
HashOf(id, size) == [id |-> id, size |-> size]
Hashes == {HashOf(id, 32) : id \in 1..NumHashes} \cup {HashOf(1, 31)}

\* Hex | ByteArray | Signature, as a tagged value.
SigHex(hex) == [type |-> "hex", hex |-> hex, bytes |-> <<>>, r |-> 0, s |-> 0, yParity |-> 0]
SigBytes(bytes) == [type |-> "bytes", hex |-> <<>>, bytes |-> bytes, r |-> 0, s |-> 0, yParity |-> 0]
SigObject(r, s, yParity) == [type |-> "object", hex |-> <<>>, bytes |-> <<>>, r |-> r, s |-> s, yParity |-> yParity]

\* bytesToHex (utils/encoding/toHex.ts): two nibbles per byte.
RECURSIVE bytesToHex(_)
bytesToHex(value) ==
    IF value = <<>> THEN <<>>
    ELSE <<Head(value) \div 16, Head(value) % 16>> \o bytesToHex(Tail(value))

\* isHex (utils/data/isHex.ts): the value is a 0x string.
isHex(signature) == signature.type = "hex"

\* serializeSignature (utils/signature/serializeSignature.ts):
\* r, s big-endian, then 27 + yParity; throws on a yParity other than 0, 1.
serializeSignature(signature) ==
    IF signature.yParity \in {0, 1}
    THEN Ok(bytesToHex(<<signature.r, signature.s, 27 + signature.yParity>>))
    ELSE Throw(Err("InvalidSerializedSignatureError", "normalize"))

\* erc6492MagicBytes (constants/bytes.ts), two bytes of the repeating 0x6492.
erc6492MagicBytes == <<6, 4, 9, 2>>

\* sliceHex(value, -n): the last n nibbles (the whole value when shorter).
SuffixHex(hex, n) ==
    IF Len(hex) <= n THEN hex ELSE SubSeq(hex, Len(hex) - n + 1, Len(hex))

\* isErc6492Signature (utils/signature/isErc6492Signature.ts)
isErc6492Signature(hex) ==
    SuffixHex(hex, Len(erc6492MagicBytes)) = erc6492MagicBytes

\* Hex of an address inside an encoded value: a tag nibble and the id.
AddressHex(a) == <<15, a.id>>

\* serializeErc6492Signature (utils/signature/serializeSignature.ts):
\* concat(encodeAbiParameters(address, bytes, bytes), magic); the encoder
\* throws on a missing component.
serializeErc6492Signature(address, data, signature) ==
    IF ~IsSome(address) THEN Throw(Err("InvalidAddressError", "wrap"))
    ELSE IF ~IsSome(data) THEN Throw(Err("AbiEncodingError", "wrap"))
    ELSE Ok(AddressHex(Get(address)) \o Get(data) \o signature \o erc6492MagicBytes)

FactoryAddress == Addr(1, TRUE)
FactoryData == <<13, 10>>

\* A plain signature of account `id` over hash `h`: bytes r, s, v.
PlainSigBytes(id, h) == <<id, h, 27>>
WrappedSigHex ==
    AddressHex(FactoryAddress) \o FactoryData
        \o bytesToHex(PlainSigBytes(1, 1)) \o erc6492MagicBytes
\* The same wrapped signature as a byte array.
WrappedSigBytes == <<241, 218>> \o PlainSigBytes(1, 1) \o <<100, 146>>

Signatures ==
    {SigHex(bytesToHex(PlainSigBytes(id, 1))) : id \in 1..NumAccounts}
    \cup {SigHex(bytesToHex(<<1>>)), SigHex(WrappedSigHex)}
    \cup {SigBytes(PlainSigBytes(1, 1)), SigBytes(WrappedSigBytes)}
    \cup {SigObject(1, 1, y) : y \in 0..2}

\* OneOf<{ factory; factoryData } | {}>; untyped callers can pass one only.
Factories == {None, Some(FactoryAddress)}
FactoryDatas == {None, Some(FactoryData)}

\* client.chain: absent, a chain without the contract, or zksync.
zksync ==
    [name |-> "ZKsync Era",
     universalSignatureVerifier |->
        Some("0x872146211f996755C8729042093ffb8660F8b129")]
plainChain == [name |-> "plain", universalSignatureVerifier |-> None]
Chains == {None, Some(plainChain), Some(zksync)}

\* ...rest: Pick<CallParameters, 'blockNumber' | 'blockTag'>
Rests == {[blockNumber |-> None, blockTag |-> None],
          [blockNumber |-> None, blockTag |-> Some("safe")],
          [blockNumber |-> Some(1), blockTag |-> None]}

-----------------------------------------------------------------------------
(* Collaborators of verifyHash whose results the function branches on.     *)

\* getAddress (utils/address/getAddress.ts): the checksummed form; throws
\* InvalidAddressError on a string that is no address.
getAddress(a) ==
    IF a.valid THEN Ok(Addr(a.id, TRUE))
    ELSE Throw(Err("InvalidAddressError", "fallback"))

\* isAddressEqual (utils/address/isAddressEqual.ts): equality up to case.
isAddressEqual(a, b) == a.valid /\ b.valid /\ a.id = b.id

\* Width in bytes of a serialized signature (r, s, v).
signatureSize == Len(PlainSigBytes(1, 1))

\* toRecoveryBit (utils/signature/recoverPublicKey.ts)
toRecoveryBit(yParityOrV) ==
    CASE yParityOrV \in {0, 1} -> Some(yParityOrV)
      [] yParityOrV = 27 -> Some(0)
      [] yParityOrV = 28 -> Some(1)
      [] OTHER -> None

HexByte(hex, i) == hex[2 * i - 1] * 16 + hex[2 * i]

\* The key that signed: a stand-in for secp256k1 recovery.  (r, s) made by
\* account r over hash s recovers r; another hash or the other recovery bit
\* recovers a different account.
RecoveredId(hash, r, s, bit) ==
    ((r - 1 + (IF s = hash.id THEN 0 ELSE 1) + bit) % NumAccounts) + 1

RecoverFrom(hash, r, s, yParityOrV) ==
    LET bit == toRecoveryBit(yParityOrV) IN
    IF ~IsSome(bit) THEN Throw(Err("InvalidRecoveryBitError", "fallback"))
    ELSE IF r = 0 \/ s = 0 THEN Throw(Err("InvalidSignatureError", "fallback"))
    ELSE Ok(Addr(RecoveredId(hash, r, s, Get(bit)), TRUE))

\* recoverAddress (utils/signature/recoverAddress.ts) on the signature in
\* the form the caller gave it.
recoverAddress(hash, signature) ==
    IF signature.type = "object"
    THEN RecoverFrom(hash, signature.r, signature.s, signature.yParity)
    ELSE LET hex == IF isHex(signature) THEN signature.hex
                    ELSE bytesToHex(signature.bytes) IN
         IF Len(hex) # 2 * signatureSize
         THEN Throw(Err("InvalidSignatureLengthError", "fallback"))
         ELSE RecoverFrom(hash, HexByte(hex, 1), HexByte(hex, 2), HexByte(hex, 3))

\* trim (utils/data/trim.ts), leading zeros removed.
RECURSIVE trim(_)
trim(hex) ==
    IF hex # <<>> /\ Head(hex) = 0 THEN trim(Tail(hex)) ELSE hex

\* hexToBool (utils/encoding/fromHex.ts): zero (or nothing) is false, one is
\* true, anything else is no boolean.
hexToBool(hex) ==
    CASE trim(hex) = <<>> -> Ok(FALSE)
      [] trim(hex) = <<1>> -> Ok(TRUE)
      [] OTHER -> Throw(Err("InvalidHexBooleanError", "decode"))

\* encodeAbiParameters on (address, bytes32, bytes): the values in order;
\* throws on a string that is no address or a hash that is no bytes32.
EncodeArgs(address, hash, sig) ==
    IF ~address.valid THEN Throw(Err("InvalidAddressError", "build"))
    ELSE IF hash.size # 32
    THEN Throw(Err("AbiEncodingBytesSizeMismatchError", "build"))
    ELSE Ok(<<address, hash, sig>>)

\* encodeFunctionData (utils/abi/encodeFunctionData.ts): selector ++ args.
encodeFunctionData(functionName, address, hash, sig) ==
    LET a == EncodeArgs(address, hash, sig) IN
    IF a.ok THEN Ok([prefix |-> functionName, args |-> a.value]) ELSE a

\* encodeDeployData (utils/abi/encodeDeployData.ts): bytecode ++ args.
encodeDeployData(bytecode, address, hash, sig) ==
    LET a == EncodeArgs(address, hash, sig) IN
    IF a.ok THEN Ok([prefix |-> bytecode, args |-> a.value]) ELSE a

\* What `call` can resolve to: { data } with data undefined or hex.
ReturnData ==
    {None, Some(<<>>), Some(<<0, 0>>), Some(<<0, 1>>),
     Some(<<0, 0, 0, 1>>), Some(<<0, 2>>)}

\* What `call` can reject with: an execution error or a transport fault.
CallErrors ==
    {Err("CallExecutionError", "call"), Err("TimeoutError", "call"),
     Err("HttpRequestError", "call")}

-----------------------------------------------------------------------------
(* State of one invocation of verifyHash.                                  *)

VARIABLES
    client,            \* [chain]: the client the function is called on
    parameters,        \* address, hash, signature, factory, factoryData, rest
    pc,                \* position in the function body
    signatureHex,      \* const signatureHex (lines 64-69)
    wrappedSignature,  \* const wrappedSignature (lines 71-86)
    callParameters,    \* const callParameters (lines 89-107), None until built
    data,              \* `data` of the resolved call (line 109)
    error,             \* the `error` bound by the outer catch (line 112)
    fallbackError,     \* what the inner try swallowed (line 120)
    outcome,           \* pending, a returned boolean or a raised error
    counts,            \* how often wrap, build, call and recover have run
    path,              \* the positions passed through, in order
    response,          \* what the call executor answered, None before it did
    recoverArgs,       \* the arguments recoverAddress was called with
    other              \* the frame of a second, suspended invocation, if any

vars ==
    <<client, parameters, pc, signatureHex, wrappedSignature, callParameters,
      data, error, fallbackError, outcome, counts, path, response,
      recoverArgs, other>>

Pending == [kind |-> "pending", value |-> FALSE, error |-> NoError]
Returned(b) == [kind |-> "return", value |-> b, error |-> NoError]
Raised(e) == [kind |-> "throw", value |-> FALSE, error |-> e]

Bump(field) == [counts EXCEPT ![field] = @ + 1]

\* The locals of an invocation at its entry.
Entry ==
    /\ pc = "Normalize"
    /\ signatureHex = <<>>
    /\ wrappedSignature = <<>>
    /\ callParameters = None
    /\ data = None
    /\ error = NoError
    /\ fallbackError = NoError
    /\ outcome = Pending
    /\ counts = [wrap |-> 0, build |-> 0, call |-> 0, recover |-> 0]
    /\ path = <<"Normalize">>
    /\ response = None
    /\ recoverArgs = None

Init ==
    /\ client \in [chain : Chains]
    /\ parameters \in
         [address : Addresses, hash : Hashes, signature : Signatures,
          factory : Factories, factoryData : FactoryDatas, rest : Rests]
    /\ Entry
    /\ other = None

\* lines 64-69: the IIFE that brings the signature to hex.
ToSignatureHex(signature) ==
    IF isHex(signature) THEN Ok(signature.hex)
    ELSE IF signature.type = "object" THEN serializeSignature(signature)
    ELSE Ok(bytesToHex(signature.bytes))

\* Mutant of Normalize: the conversion sits inside the try, so its throw is
\* caught by the outer catch.
NormalizeInsideTry ==
    /\ pc = "Normalize"
    /\ LET res == ToSignatureHex(parameters.signature) IN
       IF res.ok
       THEN /\ signatureHex' = res.value
            /\ pc' = "MaybeWrap"
            /\ UNCHANGED error
       ELSE /\ error' = res.error
            /\ pc' = "Catch"
            /\ UNCHANGED signatureHex
    /\ path' = Append(path, pc')
    /\ UNCHANGED <<other, response, recoverArgs>>
    /\ UNCHANGED <<client, parameters, wrappedSignature, callParameters, data,
                   outcome, fallbackError, counts>>

\* lines 64-69 run outside the try: a throw leaves the function.
Normalize ==
    /\ pc = "Normalize"
    /\ LET res == ToSignatureHex(parameters.signature) IN
       IF res.ok
       THEN /\ signatureHex' = res.value
            /\ pc' = "MaybeWrap"
            /\ UNCHANGED outcome
       ELSE /\ outcome' = Raised(res.error)
            /\ pc' = "Done"
            /\ UNCHANGED signatureHex
    /\ path' = Append(path, pc')
    /\ UNCHANGED <<other, response, recoverArgs>>
    /\ UNCHANGED <<client, parameters, wrappedSignature, callParameters, data,
                   error, fallbackError, counts>>

\* line 74: neither factory nor factoryData given.
NoDeployment(factory, factoryData) == ~IsSome(factory) /\ ~IsSome(factoryData)

\* Mutant of MustWrap: the isErc6492Signature test is missing.
MustWrapUnchecked(factory, factoryData, hex) ==
    ~NoDeployment(factory, factoryData)

\* Mutant of MustWrap: the test of line 74 is missing.
MustWrapIgnoresFactory(factory, factoryData, hex) == ~isErc6492Signature(hex)

\* lines 74-77: whether serializeErc6492Signature is to be called.
MustWrap(factory, factoryData, hex) ==
    ~NoDeployment(factory, factoryData) /\ ~isErc6492Signature(hex)

\* Mutant of MaybeWrap: the wrapping sits inside the try, so a throw of
\* serializeErc6492Signature is caught by the outer catch.
MaybeWrapInsideTry ==
    /\ pc = "MaybeWrap"
    /\ IF ~MustWrap(parameters.factory, parameters.factoryData, signatureHex)
       THEN /\ wrappedSignature' = signatureHex
            /\ pc' = "Build"
            /\ UNCHANGED <<error, counts>>
       ELSE LET res == serializeErc6492Signature(parameters.factory,
                           parameters.factoryData, signatureHex) IN
            /\ counts' = Bump("wrap")
            /\ IF res.ok
               THEN /\ wrappedSignature' = res.value
                    /\ pc' = "Build"
                    /\ UNCHANGED error
               ELSE /\ error' = res.error
                    /\ pc' = "Catch"
                    /\ UNCHANGED wrappedSignature
    /\ path' = Append(path, pc')
    /\ UNCHANGED <<other, response, recoverArgs>>
    /\ UNCHANGED <<client, parameters, signatureHex, callParameters, data,
                   outcome, fallbackError>>

\* lines 71-86, outside the try as well.
MaybeWrap ==
    /\ pc = "MaybeWrap"
    /\ IF ~MustWrap(parameters.factory, parameters.factoryData, signatureHex)
       THEN /\ wrappedSignature' = signatureHex
            /\ pc' = "Build"
            /\ UNCHANGED <<outcome, counts>>
       ELSE LET res == serializeErc6492Signature(parameters.factory,
                           parameters.factoryData, signatureHex) IN
            /\ counts' = Bump("wrap")
            /\ IF res.ok
               THEN /\ wrappedSignature' = res.value
                    /\ pc' = "Build"
                    /\ UNCHANGED outcome
               ELSE /\ outcome' = Raised(res.error)
                    /\ pc' = "Done"
                    /\ UNCHANGED wrappedSignature
    /\ path' = Append(path, pc')
    /\ UNCHANGED <<other, response, recoverArgs>>
    /\ UNCHANGED <<client, parameters, signatureHex, callParameters, data,
                   error, fallbackError>>

\* client.chain?.contracts?.universalSignatureVerifier (lines 89-90)
universalSignatureVerifier(chain) ==
    IF IsSome(chain) THEN Get(chain).universalSignatureVerifier ELSE None

\* Mutant of BuildCallParameters: the path is chosen by client.chain being
\* set, not by the chain naming the contract.
BuildByChainPresence(chain, address, hash, sig, rest) ==
    LET enc == IF IsSome(chain)
               THEN encodeFunctionData("isValidUniversalSig", address, hash, sig)
               ELSE encodeDeployData("universalSignatureValidatorByteCode",
                                     address, hash, sig)
    IN  IF enc.ok
        THEN Ok([to |-> universalSignatureVerifier(chain), data |-> enc.value,
                 blockNumber |-> rest.blockNumber, blockTag |-> rest.blockTag])
        ELSE enc

\* Mutant of BuildCallParameters: `...rest` is missing on the deploy path.
BuildDropsRest(chain, address, hash, sig, rest) ==
    LET verifier == universalSignatureVerifier(chain)
        enc == IF IsSome(verifier)
               THEN encodeFunctionData("isValidUniversalSig", address, hash, sig)
               ELSE encodeDeployData("universalSignatureValidatorByteCode",
                                     address, hash, sig)
    IN  IF enc.ok
        THEN Ok([to |-> verifier, data |-> enc.value,
                 blockNumber |-> IF IsSome(verifier) THEN rest.blockNumber
                                 ELSE None,
                 blockTag |-> IF IsSome(verifier) THEN rest.blockTag
                              ELSE None])
        ELSE enc

\* lines 89-107: the payload, or the encoder's throw.
BuildCallParameters(chain, address, hash, sig, rest) ==
    LET verifier == universalSignatureVerifier(chain)
        enc == IF IsSome(verifier)
               THEN encodeFunctionData("isValidUniversalSig", address, hash, sig)
               ELSE encodeDeployData("universalSignatureValidatorByteCode",
                                     address, hash, sig)
    IN  IF enc.ok
        THEN Ok([to |-> verifier, data |-> enc.value,
                 blockNumber |-> rest.blockNumber, blockTag |-> rest.blockTag])
        ELSE enc

\* lines 89-107, first statement of the try.
Build ==
    /\ pc = "Build"
    /\ LET res == BuildCallParameters(client.chain, parameters.address,
                      parameters.hash, wrappedSignature, parameters.rest) IN
       IF res.ok
       THEN /\ callParameters' = Some(res.value)
            /\ counts' = Bump("build")
            /\ pc' = "Call"
            /\ UNCHANGED error
       ELSE /\ error' = res.error
            /\ pc' = "Catch"
            /\ UNCHANGED <<callParameters, counts>>
    /\ path' = Append(path, pc')
    /\ UNCHANGED <<other, response, recoverArgs>>
    /\ UNCHANGED <<client, parameters, signatureHex, wrappedSignature, data,
                   fallbackError, outcome>>

\* line 109: getAction(client, call, 'call')(callParameters); then await.
CallAction ==
    /\ pc = "Call"
    /\ counts' = Bump("call")
    /\ pc' = "Await"
    /\ path' = Append(path, pc')
    /\ UNCHANGED <<other, response, recoverArgs>>
    /\ UNCHANGED <<client, parameters, signatureHex, wrappedSignature,
                   callParameters, data, error, fallbackError, outcome>>

\* line 109: the call resolves with { data }.
CallReturns ==
    /\ pc = "Await"
    /\ \E d \in ReturnData :
         /\ data' = d
         /\ response' = Some([ok |-> TRUE, data |-> d, error |-> NoError])
    /\ pc' = "Decode"
    /\ path' = Append(path, pc')
    /\ UNCHANGED <<other, recoverArgs>>
    /\ UNCHANGED <<client, parameters, signatureHex, wrappedSignature,
                   callParameters, error, fallbackError, outcome, counts>>

\* Mutant of CallThrows: a rejected call is issued once more.
CallThrowsRetry ==
    /\ pc = "Await"
    /\ \E e \in CallErrors :
         /\ error' = e
         /\ response' = Some([ok |-> FALSE, data |-> None, error |-> e])
    /\ pc' = IF counts.call < 2 THEN "Call" ELSE "Catch"
    /\ path' = Append(path, pc')
    /\ UNCHANGED <<other, recoverArgs>>
    /\ UNCHANGED <<client, parameters, signatureHex, wrappedSignature,
                   callParameters, data, fallbackError, outcome, counts>>

\* line 109: the call rejects; the outer catch binds the error.
CallThrows ==
    /\ pc = "Await"
    /\ \E e \in CallErrors :
         /\ error' = e
         /\ response' = Some([ok |-> FALSE, data |-> None, error |-> e])
    /\ pc' = "Catch"
    /\ path' = Append(path, pc')
    /\ UNCHANGED <<other, recoverArgs>>
    /\ UNCHANGED <<client, parameters, signatureHex, wrappedSignature,
                   callParameters, data, fallbackError, outcome, counts>>

\* Mutant of DataOrDefault: data ?? '0x1'
DataOrOne(d) == IF IsSome(d) THEN Get(d) ELSE <<1>>

\* line 111: data ?? '0x0'
DataOrDefault(d) == IF IsSome(d) THEN Get(d) ELSE <<0>>

\* Mutant of Decode: a decoded false is not returned but thrown into the
\* catch block, as if only `true` were final.
DecodeFalseFallsBack ==
    /\ pc = "Decode"
    /\ LET res == hexToBool(DataOrDefault(data)) IN
       IF res.ok /\ res.value
       THEN /\ outcome' = Returned(TRUE)
            /\ pc' = "Done"
            /\ UNCHANGED error
       ELSE /\ error' = IF res.ok THEN Err("CallExecutionError", "decode")
                        ELSE res.error
            /\ pc' = "Catch"
            /\ UNCHANGED outcome
    /\ path' = Append(path, pc')
    /\ UNCHANGED <<other, response, recoverArgs>>
    /\ UNCHANGED <<client, parameters, signatureHex, wrappedSignature,
                   callParameters, data, fallbackError, counts>>

\* Mutant of Decode: hexToBool runs after the try, so its throw leaves the
\* function.
DecodeOutsideTry ==
    /\ pc = "Decode"
    /\ LET res == hexToBool(DataOrDefault(data)) IN
       /\ outcome' = IF res.ok THEN Returned(res.value) ELSE Raised(res.error)
       /\ error' = IF res.ok THEN error ELSE res.error
    /\ pc' = "Done"
    /\ path' = Append(path, pc')
    /\ UNCHANGED <<other, response, recoverArgs>>
    /\ UNCHANGED <<client, parameters, signatureHex, wrappedSignature,
                   callParameters, data, fallbackError, counts>>

\* line 111: return hexToBool(data ?? '0x0'), still inside the try.
Decode ==
    /\ pc = "Decode"
    /\ LET res == hexToBool(DataOrDefault(data)) IN
       IF res.ok
       THEN /\ outcome' = Returned(res.value)
            /\ pc' = "Done"
            /\ UNCHANGED error
       ELSE /\ error' = res.error
            /\ pc' = "Catch"
            /\ UNCHANGED outcome
    /\ path' = Append(path, pc')
    /\ UNCHANGED <<other, response, recoverArgs>>
    /\ UNCHANGED <<client, parameters, signatureHex, wrappedSignature,
                   callParameters, data, fallbackError, counts>>

\* Mutant of Verified: address === recovered, without getAddress.
VerifiedStrict(address, recovered) == address = recovered

\* lines 115-118: isAddressEqual(getAddress(address), recovered)
Verified(address, recovered) ==
    isAddressEqual(getAddress(address).value, recovered)

\* Mutant of Fallback: the inner try has no catch, so what getAddress or
\* recoverAddress throws leaves the function.
FallbackUnswallowed ==
    /\ pc = "Catch"
    /\ LET claimed == getAddress(parameters.address) IN
       IF ~claimed.ok
       THEN /\ outcome' = Raised(claimed.error)
            /\ fallbackError' = claimed.error
            /\ pc' = "Done"
            /\ UNCHANGED <<counts, recoverArgs>>
       ELSE LET recovered == recoverAddress(parameters.hash,
                                 parameters.signature) IN
            /\ counts' = Bump("recover")
            /\ recoverArgs' = Some([hash |-> parameters.hash,
                                     signature |-> parameters.signature])
            /\ IF ~recovered.ok
               THEN /\ outcome' = Raised(recovered.error)
                    /\ fallbackError' = recovered.error
                    /\ pc' = "Done"
               ELSE IF Verified(parameters.address, recovered.value)
               THEN /\ outcome' = Returned(TRUE)
                    /\ pc' = "Done"
                    /\ UNCHANGED fallbackError
               ELSE /\ pc' = "Classify"
                    /\ UNCHANGED <<outcome, fallbackError>>
    /\ path' = Append(path, pc')
    /\ UNCHANGED <<other, response>>
    /\ UNCHANGED <<client, parameters, signatureHex, wrappedSignature,
                   callParameters, data, error>>

\* Mutant of Fallback: the inner try sits inside the instanceof test, so
\* recovery is attempted after an execution error only.
FallbackOnlyOnRevert ==
    /\ pc = "Catch"
    /\ LET claimed == getAddress(parameters.address) IN
       IF error.name # "CallExecutionError"
       THEN /\ pc' = "Classify"
            /\ UNCHANGED <<outcome, counts, recoverArgs, fallbackError>>
       ELSE IF ~claimed.ok
       THEN /\ fallbackError' = claimed.error
            /\ pc' = "Classify"
            /\ UNCHANGED <<outcome, counts, recoverArgs>>
       ELSE LET recovered == recoverAddress(parameters.hash,
                                 parameters.signature) IN
            /\ counts' = Bump("recover")
            /\ recoverArgs' = Some([hash |-> parameters.hash,
                                     signature |-> parameters.signature])
            /\ IF ~recovered.ok
               THEN /\ fallbackError' = recovered.error
                    /\ pc' = "Classify"
                    /\ UNCHANGED outcome
               ELSE IF Verified(parameters.address, recovered.value)
               THEN /\ outcome' = Returned(TRUE)
                    /\ pc' = "Done"
                    /\ UNCHANGED fallbackError
               ELSE /\ pc' = "Classify"
                    /\ UNCHANGED <<outcome, fallbackError>>
    /\ path' = Append(path, pc')
    /\ UNCHANGED <<other, response>>
    /\ UNCHANGED <<client, parameters, signatureHex, wrappedSignature,
                   callParameters, data, error>>

\* Mutant of Fallback: recoverAddress is given wrappedSignature, the value
\* sent to the validator, instead of the caller's signature.
FallbackWrappedSignature ==
    /\ pc = "Catch"
    /\ LET claimed == getAddress(parameters.address) IN
       IF ~claimed.ok
       THEN /\ fallbackError' = claimed.error
            /\ pc' = "Classify"
            /\ UNCHANGED <<outcome, counts, recoverArgs>>
       ELSE LET recovered == recoverAddress(parameters.hash,
                                 SigHex(wrappedSignature)) IN
            /\ counts' = Bump("recover")
            /\ recoverArgs' = Some([hash |-> parameters.hash,
                                     signature |-> SigHex(wrappedSignature)])
            /\ IF ~recovered.ok
               THEN /\ fallbackError' = recovered.error
                    /\ pc' = "Classify"
                    /\ UNCHANGED outcome
               ELSE IF Verified(parameters.address, recovered.value)
               THEN /\ outcome' = Returned(TRUE)
                    /\ pc' = "Done"
                    /\ UNCHANGED fallbackError
               ELSE /\ pc' = "Classify"
                    /\ UNCHANGED <<outcome, fallbackError>>
    /\ path' = Append(path, pc')
    /\ UNCHANGED <<other, response>>
    /\ UNCHANGED <<client, parameters, signatureHex, wrappedSignature,
                   callParameters, data, error>>

\* lines 114-120: the inner try.  getAddress is evaluated before
\* recoverAddress; whatever either throws is swallowed.
Fallback ==
    /\ pc = "Catch"
    /\ LET claimed == getAddress(parameters.address) IN
       IF ~claimed.ok
       THEN /\ fallbackError' = claimed.error
            /\ pc' = "Classify"
            /\ UNCHANGED <<outcome, counts, recoverArgs>>
       ELSE LET recovered == recoverAddress(parameters.hash,
                                 parameters.signature) IN
            /\ counts' = Bump("recover")
            /\ recoverArgs' = Some([hash |-> parameters.hash,
                                     signature |-> parameters.signature])
            /\ IF ~recovered.ok
               THEN /\ fallbackError' = recovered.error
                    /\ pc' = "Classify"
                    /\ UNCHANGED outcome
               ELSE IF Verified(parameters.address, recovered.value)
               THEN /\ outcome' = Returned(TRUE)
                    /\ pc' = "Done"
                    /\ UNCHANGED fallbackError
               ELSE /\ pc' = "Classify"
                    /\ UNCHANGED <<outcome, fallbackError>>
    /\ path' = Append(path, pc')
    /\ UNCHANGED <<other, response>>
    /\ UNCHANGED <<client, parameters, signatureHex, wrappedSignature,
                   callParameters, data, error>>

\* Mutants of IsCallExecutionError: every rejection of the call counts as an
\* execution error; no error does.
AnyCallFailureIsExecutionError(e) == e.origin = "call"
NeverCallExecutionError(e) == FALSE

\* line 122: error instanceof CallExecutionError
IsCallExecutionError(e) == e.name = "CallExecutionError"

\* Mutant of Classify: the catch block ends in `return false` for any error.
ClassifyAlwaysFalse ==
    /\ pc = "Classify"
    /\ outcome' = Returned(FALSE)
    /\ pc' = "Done"
    /\ path' = Append(path, pc')
    /\ UNCHANGED <<other, response, recoverArgs>>
    /\ UNCHANGED <<client, parameters, signatureHex, wrappedSignature,
                   callParameters, data, error, fallbackError, counts>>

\* Mutant of Classify: an error that is no execution error makes the call
\* be issued once more instead of being rethrown.
ClassifyRetryOnFault ==
    /\ pc = "Classify"
    /\ IF ~IsCallExecutionError(error) /\ IsSome(callParameters)
          /\ counts.call < 2
       THEN /\ pc' = "Call"
            /\ UNCHANGED outcome
       ELSE /\ outcome' = IF IsCallExecutionError(error) THEN Returned(FALSE)
                          ELSE Raised(error)
            /\ pc' = "Done"
    /\ path' = Append(path, pc')
    /\ UNCHANGED <<other, response, recoverArgs>>
    /\ UNCHANGED <<client, parameters, signatureHex, wrappedSignature,
                   callParameters, data, error, fallbackError, counts>>

\* lines 122-129: false on an execution error, otherwise rethrow.
Classify ==
    /\ pc = "Classify"
    /\ outcome' = IF IsCallExecutionError(error) THEN Returned(FALSE)
                  ELSE Raised(error)
    /\ pc' = "Done"
    /\ path' = Append(path, pc')
    /\ UNCHANGED <<other, response, recoverArgs>>
    /\ UNCHANGED <<client, parameters, signatureHex, wrappedSignature,
                   callParameters, data, error, fallbackError, counts>>

Next ==
    \/ Normalize
    \/ MaybeWrap
    \/ Build
    \/ CallAction
    \/ CallReturns
    \/ CallThrows
    \/ Decode
    \/ Fallback
    \/ Classify

Spec == Init /\ [][Next]_vars

-----------------------------------------------------------------------------
(* Two invocations in flight.  The locals of the running invocation are    *)
(* the variables; `other` holds the locals of the suspended one.  The      *)
(* function awaits at lines 71, 109 and 117; Switch lets the two change    *)
(* places at any position, which covers every interleaving of their steps. *)

Frame ==
    [client |-> client, parameters |-> parameters, pc |-> pc,
     signatureHex |-> signatureHex, wrappedSignature |-> wrappedSignature,
     callParameters |-> callParameters, data |-> data, error |-> error,
     fallbackError |-> fallbackError, outcome |-> outcome, counts |-> counts,
     path |-> path, response |-> response, recoverArgs |-> recoverArgs]

\* The frame of an invocation that has not taken a step.
EntryFrame(c, p) ==
    [client |-> c, parameters |-> p, pc |-> "Normalize",
     signatureHex |-> <<>>, wrappedSignature |-> <<>>,
     callParameters |-> None, data |-> None, error |-> NoError,
     fallbackError |-> NoError, outcome |-> Pending,
     counts |-> [wrap |-> 0, build |-> 0, call |-> 0, recover |-> 0],
     path |-> <<"Normalize">>, response |-> None, recoverArgs |-> None]

\* Mutant of Switch: `error` is one variable of the module, not a local of
\* the invocation, so it is not saved and restored with the frame.
SwitchSharedError ==
    /\ IsSome(other)
    /\ other' = Some(Frame)
    /\ LET f == Get(other) IN
       /\ client' = f.client
       /\ parameters' = f.parameters
       /\ pc' = f.pc
       /\ signatureHex' = f.signatureHex
       /\ wrappedSignature' = f.wrappedSignature
       /\ callParameters' = f.callParameters
       /\ data' = f.data
       /\ error' = error
       /\ fallbackError' = f.fallbackError
       /\ outcome' = f.outcome
       /\ counts' = f.counts
       /\ path' = f.path
       /\ response' = f.response
       /\ recoverArgs' = f.recoverArgs

\* The running invocation is suspended and the other one resumed; every
\* local (const / catch binding of lines 62-115) belongs to its invocation.
Switch ==
    /\ IsSome(other)
    /\ other' = Some(Frame)
    /\ LET f == Get(other) IN
       /\ client' = f.client
       /\ parameters' = f.parameters
       /\ pc' = f.pc
       /\ signatureHex' = f.signatureHex
       /\ wrappedSignature' = f.wrappedSignature
       /\ callParameters' = f.callParameters
       /\ data' = f.data
       /\ error' = f.error
       /\ fallbackError' = f.fallbackError
       /\ outcome' = f.outcome
       /\ counts' = f.counts
       /\ path' = f.path
       /\ response' = f.response
       /\ recoverArgs' = f.recoverArgs

\* Parameters of the two concurrent invocations.
ConcParameters ==
    [address : {Addr(id, TRUE) : id \in 1..NumAccounts},
     hash : {HashOf(1, 32)},
     signature : {SigHex(bytesToHex(PlainSigBytes(1, 1))),
                  SigHex(bytesToHex(<<1>>)), SigObject(1, 1, 2)},
     factory : {None},
     factoryData : FactoryDatas,
     rest : {[blockNumber |-> None, blockTag |-> None]}]

ConcInit ==
    /\ client = [chain |-> None]
    /\ parameters \in ConcParameters
    /\ Entry
    /\ \E p \in ConcParameters : other = Some(EntryFrame([chain |-> None], p))

ConcNext ==
    \/ Next
    \/ Switch

ConcSpec == ConcInit /\ [][ConcNext]_vars

\* An invocation whose continuations are run and whose call is answered:
\* the event loop runs every ready continuation, and the call executor is
\* taken to respond.
LiveSpec == Spec /\ WF_vars(Next)

TypeOK ==
    /\ pc \in {"Normalize", "MaybeWrap", "Build", "Call", "Await", "Decode",
               "Catch", "Classify", "Done"}
    /\ outcome.kind \in {"pending", "return", "throw"}
    /\ (pc = "Done") <=> (outcome.kind # "pending")

-----------------------------------------------------------------------------
(* Properties.                                                             *)

Done == pc = "Done"
Visited(label) == \E i \in 1..Len(path) : path[i] = label

\* The call executor rejected with an execution revert / with another fault.
CallReverted == error.origin = "call" /\ error.name = "CallExecutionError"
CallFaulted == error.origin = "call" /\ error.name # "CallExecutionError"

\* Local recovery of the caller's signature succeeds and yields an address
\* canonically equal to the claimed one.
LocalMatch ==
    LET claimed == getAddress(parameters.address)
        recovered == recoverAddress(parameters.hash, parameters.signature)
    IN  /\ claimed.ok
        /\ recovered.ok
        /\ claimed.value.id = recovered.value.id

\* The call resolved and its bytes are a boolean.
Decoded == Visited("Decode") /\ hexToBool(DataOrDefault(data)).ok
DecodedValue == hexToBool(DataOrDefault(data)).value

C2_RevertNoMatchIsFalse ==
    (Done /\ CallReverted /\ ~LocalMatch) => outcome = Returned(FALSE)

C2_Witness ==
    /\ Done /\ CallReverted /\ ~LocalMatch
    /\ counts.recover = 1 /\ fallbackError = NoError

\* C3: the call reverts and local recovery yields an address canonically
\* equal to the claimed one: verifyHash returns true.
C3_RevertMatchIsTrue ==
    (Done /\ CallReverted /\ LocalMatch) => outcome = Returned(TRUE)

C3_Witness ==
    Done /\ CallReverted /\ LocalMatch /\ ~parameters.address.checksummed

\* C4: when the call resolves and its bytes decode to a boolean b, verifyHash
\* returns b, and neither the catch block nor local recovery runs.
C4_RemoteSuccessFinal ==
    (Done /\ Decoded) =>
        /\ outcome = Returned(DecodedValue)
        /\ ~Visited("Catch")
        /\ counts.recover = 0

C4_Witness == Done /\ Decoded /\ ~DecodedValue /\ LocalMatch

\* C5: verifyHash returns false only when the call resolved and its bytes
\* decoded to false, or when the error caught on the remote path is a
\* CallExecutionError.
C5_FalseOnlyTwoWays ==
    (Done /\ outcome = Returned(FALSE)) =>
        \/ Decoded /\ ~DecodedValue /\ error = NoError
        \/ CallReverted

C5_Witness == Done /\ outcome = Returned(FALSE) /\ CallReverted

\* C6: a normalized signature that already ends with the ERC-6492 marker is
\* never wrapped, with or without factory and factoryData, and the payload
\* carries it unchanged.
C6_NoRewrap ==
    isErc6492Signature(signatureHex) =>
        /\ counts.wrap = 0
        /\ pc \notin {"Normalize", "MaybeWrap"} => wrappedSignature = signatureHex
        /\ IsSome(callParameters)
             => Get(callParameters).data.args[3] = signatureHex

C6_Witness ==
    /\ isErc6492Signature(signatureHex)
    /\ IsSome(parameters.factory) /\ IsSome(parameters.factoryData)
    /\ IsSome(callParameters)
    /\ counts.call = 1

\* The chain of the client names a universal validator contract.
NamesVerifier ==
    IsSome(client.chain) /\ IsSome(Get(client.chain).universalSignatureVerifier)

\* The payload is the one of the path the chain selects.
PayloadOfChain(cp) ==
    LET args == <<parameters.address, parameters.hash, wrappedSignature>> IN
    /\ client.chain = Some(zksync)
         => cp.to = Some("0x872146211f996755C8729042093ffb8660F8b129")
    /\ IF NamesVerifier
       THEN /\ cp.to = Get(client.chain).universalSignatureVerifier
            /\ cp.data = [prefix |-> "isValidUniversalSig", args |-> args]
       ELSE /\ cp.to = None
            /\ cp.data = [prefix |-> "universalSignatureValidatorByteCode",
                          args |-> args]

\* C7 as stated: every invocation builds exactly one payload, and it is the
\* one of the path the chain selects.
C7_Original ==
    Done => /\ counts.build = 1
            /\ IsSome(callParameters)
            /\ PayloadOfChain(Get(callParameters))

\* C7 amended: an invocation builds at most one payload, and exactly one
\* once it reaches the call executor (none when normalization, wrapping or
\* ABI encoding throws first); a payload built goes to the validator address
\* with the isValidUniversalSig call when the chain names the contract, and
\* has no destination and bytecode plus constructor arguments when it names
\* none, whatever the signature, factory and factoryData are.
C7_PathByChain ==
    /\ counts.build <= 1
    /\ IsSome(callParameters) <=> counts.build = 1
    /\ Visited("Call") => counts.build = 1
    /\ IsSome(callParameters) => PayloadOfChain(Get(callParameters))

C7_Witness ==
    /\ Done /\ counts.call = 1
    /\ NamesVerifier
    /\ IsSome(parameters.factory) /\ counts.wrap = 1
    /\ Get(callParameters).data.prefix = "isValidUniversalSig"

\* C8: the call resolves with absent or empty data: verifyHash returns
\* false, without raising and without entering the catch block.
C8_EmptyDataIsFalse ==
    (Done /\ Visited("Decode") /\ data \in {None, Some(<<>>)}) =>
        /\ outcome = Returned(FALSE)
        /\ ~Visited("Catch")
        /\ counts.recover = 0

C8_Witness ==
    Done /\ Visited("Decode") /\ data = None /\ LocalMatch /\ counts.call = 1

\* Bringing the caller's signature to hex throws.
NormalizeFails == ~ToSignatureHex(parameters.signature).ok

\* C9: when normalizing the signature throws, verifyHash raises that error,
\* and the call executor and local recovery are never run.
C9_NormalizeFatal ==
    NormalizeFails =>
        /\ counts.call = 0 /\ counts.recover = 0 /\ counts.build = 0
        /\ pc \in {"Normalize", "Done"}
        /\ Done => outcome = Raised(ToSignatureHex(parameters.signature).error)

C9_Witness ==
    Done /\ NormalizeFails /\ outcome.error.origin = "normalize"

\* C10: an error thrown inside the fallback never reaches the caller: when
\* verifyHash raises after entering the catch block, it raises the error
\* the outer catch caught.
C10_FallbackErrorSwallowed ==
    (Done /\ outcome.kind = "throw" /\ Visited("Catch")) =>
        /\ outcome.error = error
        /\ outcome.error.origin \in {"build", "call", "decode"}
        /\ outcome.error # fallbackError

C10_Witness ==
    /\ Done /\ outcome.kind = "throw" /\ Visited("Catch")
    /\ fallbackError.name = "InvalidSignatureLengthError"
    /\ counts.recover = 1

\* C11: the call executor is invoked at most once in an invocation, whatever
\* it answers; a rejected call is not issued again.
C11_NoRetry ==
    /\ counts.call <= 1
    /\ IsSome(response) => counts.call = 1 /\ pc \notin {"Call", "Await"}
    /\ Cardinality({i \in 1..Len(path) : path[i] = "Call"}) <= 1

C11_Witness == Done /\ CallFaulted /\ outcome.kind = "throw" /\ counts.call = 1

\* What verifyHash yields for client c, parameters p and answer resp of the
\* call executor when it runs with nothing else in flight.
VerifyAlone(c, p, resp) ==
    LET hex == ToSignatureHex(p.signature) IN
    IF ~hex.ok THEN Raised(hex.error)
    ELSE
    LET wrapped == IF MustWrap(p.factory, p.factoryData, hex.value)
                   THEN serializeErc6492Signature(p.factory, p.factoryData,
                                                  hex.value)
                   ELSE Ok(hex.value) IN
    IF ~wrapped.ok THEN Raised(wrapped.error)
    ELSE
    LET built == BuildCallParameters(c.chain, p.address, p.hash,
                                     wrapped.value, p.rest)
        tried == IF ~built.ok THEN Throw(built.error)
                 ELSE IF ~Get(resp).ok THEN Throw(Get(resp).error)
                 ELSE hexToBool(DataOrDefault(Get(resp).data))
        claimed == getAddress(p.address)
        recovered == recoverAddress(p.hash, p.signature)
    IN  IF tried.ok THEN Returned(tried.value)
        ELSE IF claimed.ok /\ recovered.ok
                  /\ isAddressEqual(claimed.value, recovered.value)
        THEN Returned(TRUE)
        ELSE IF tried.error.name = "CallExecutionError" THEN Returned(FALSE)
        ELSE Raised(tried.error)

\* A finished invocation has the outcome it has when run alone.
AsAlone(f) ==
    f.pc = "Done" => f.outcome = VerifyAlone(f.client, f.parameters, f.response)

\* C12: with two invocations in flight, in any interleaving of their steps,
\* each ends with the outcome it has when run alone on the same inputs and
\* the same answer of the call executor.
C12_Independent == AsAlone(Frame) /\ (IsSome(other) => AsAlone(Get(other)))

C12_Witness ==
    /\ IsSome(other)
    /\ Done /\ outcome = Returned(FALSE)
    /\ Get(other).pc = "Done" /\ Get(other).outcome.kind = "throw"
    /\ Get(other).response # None /\ Get(other).counts.recover = 1

\* A single invocation has the outcome VerifyAlone gives.
AloneAgrees == AsAlone(Frame)

MalformedReturn == Visited("Decode") /\ ~hexToBool(DataOrDefault(data)).ok

SigAsHex(sig) ==
    IF ToSignatureHex(sig).ok THEN ToSignatureHex(sig).value ELSE <<>>

\* The signature recoverAddress was called with.
RecoveredSignature == Get(recoverArgs).signature

\* C16 as stated: the signature passed to local recovery is the caller's
\* original signature, never the wrapper made by MaybeWrap and never a
\* signature that ends with the ERC-6492 marker.
C16_Original ==
    IsSome(recoverArgs) =>
        /\ RecoveredSignature = parameters.signature
        /\ ~isErc6492Signature(SigAsHex(RecoveredSignature))

\* C16 amended: the signature passed to local recovery is the caller's
\* original signature as supplied, never the wrapper made by MaybeWrap; it
\* ends with the ERC-6492 marker exactly when the caller's own signature
\* does.
C16_RecoversCallerSignature ==
    IsSome(recoverArgs) =>
        /\ RecoveredSignature = parameters.signature
        /\ Get(recoverArgs).hash = parameters.hash
        /\ counts.wrap >= 1 =>
             /\ SigAsHex(RecoveredSignature) # wrappedSignature
             /\ ~isErc6492Signature(SigAsHex(RecoveredSignature))
        /\ isErc6492Signature(SigAsHex(RecoveredSignature))
             <=> isErc6492Signature(signatureHex)

C16_Witness ==
    /\ IsSome(recoverArgs)
    /\ counts.wrap = 1 /\ isErc6492Signature(wrappedSignature)
    /\ RecoveredSignature.type = "bytes"
    /\ outcome = Returned(TRUE)

\* The payload built for the same arguments when no block option is given.
PayloadWithoutOptions ==
    BuildCallParameters(client.chain, parameters.address, parameters.hash,
        wrappedSignature, [blockNumber |-> None, blockTag |-> None]).value

\* C17: on both paths the payload handed to the call executor carries the
\* caller's blockNumber and blockTag unchanged, and its destination and data
\* are those it has without block options.
C17_BlockOptionsPassThrough ==
    IsSome(callParameters) =>
        LET cp == Get(callParameters) IN
        /\ cp.blockNumber = parameters.rest.blockNumber
        /\ cp.blockTag = parameters.rest.blockTag
        /\ cp.to = PayloadWithoutOptions.to
        /\ cp.data = PayloadWithoutOptions.data
        /\ PayloadOfChain(cp)

C17_Witness ==
    /\ counts.call = 1
    /\ ~NamesVerifier
    /\ parameters.rest.blockTag = Some("safe")
    /\ Get(callParameters).blockTag = Some("safe")
    /\ Get(callParameters).to = None

\* The signature argument of the payload.
PayloadSignature == Get(callParameters).data.args[3]

\* C18: without factory and factoryData wrap is not called and the payload
\* carries the normalized signature; with both and a normalized signature
\* that is not wrapped, the payload carries wrap(factory, factoryData,
\* normalized signature).
C18_MaybeWrap ==
    /\ NoDeployment(parameters.factory, parameters.factoryData) =>
         /\ counts.wrap = 0
         /\ IsSome(callParameters) => PayloadSignature = signatureHex
    /\ ( /\ IsSome(parameters.factory) /\ IsSome(parameters.factoryData)
         /\ IsSome(callParameters)
         /\ ~isErc6492Signature(signatureHex) ) =>
         /\ counts.wrap = 1
         /\ PayloadSignature =
              AddressHex(Get(parameters.factory)) \o Get(parameters.factoryData)
                  \o signatureHex \o erc6492MagicBytes

C18_Witness ==
    /\ counts.call = 1
    /\ IsSome(parameters.factory) /\ IsSome(parameters.factoryData)
    /\ parameters.signature.type = "object"
    /\ isErc6492Signature(PayloadSignature)
    /\ PayloadSignature # signatureHex

\* C19: serializeErc6492Signature is called only with both factory and
\* factoryData present; an invocation given exactly one of them does not
\* reach it.
C19_BothOrNeither ==
    counts.wrap >= 1 =>
        IsSome(parameters.factory) /\ IsSome(parameters.factoryData)

\* No position occurs twice on the path.
NoRepeat ==
    \A i, j \in 1..Len(path) : path[i] = path[j] => i = j

\* C20: when the call executor responds, every invocation reaches Done, with
\* one outcome (a boolean or a raised error) that does not change any more,
\* and passes through no position twice.
C20_Terminates ==
    /\ <>Done
    /\ [](NoRepeat /\ (Done <=> outcome.kind \in {"return", "throw"}))
    /\ [][Done => (pc' = "Done" /\ outcome' = outcome)]_vars

C20_Witness ==
    /\ Done /\ outcome.kind = "throw"
    /\ path = <<"Normalize", "MaybeWrap", "Build", "Call", "Await", "Decode",
                "Catch", "Classify", "Done">>

====
